---- MODULE Spec2Model ----
(***************************************************************************)
(* cyclemetrics: the track metrics of src/gpx.rs and the aggregation and   *)
(* display loop of App::run in src/runner.rs.                              *)
(*                                                                         *)
(* Conventions of the model                                                *)
(*  - Option<T> is a sequence of length 0 (None) or 1 (Some(v)).           *)
(*  - An f64 is an integer number of thousandths (130.0 is 130000), so     *)
(*    that the division by 1_000.0 and round() are real computations.      *)
(*  - A usize saturates at UsizeMax.                                       *)
(***************************************************************************)
EXTENDS Integers, Sequences, FiniteSets, TLC

VARIABLES
    pc,             \* position of the program
    nargs,          \* args.gpx_files.len()
    argi,           \* index of the pattern the outer loop of App::run is at
    gpx,            \* Option<Gpx>: the document most recently bound to `gpx`
    paths,          \* the file paths bound to `file_path` so far, in order
    app,            \* the App: [files, file_list, grand_total_km, exit]
    event,          \* Option: the event most recently returned by event::read
    indexed,        \* Option<usize>: the index render_detail last used on file_list.files
    result,         \* Option: what run_cyclemetrics returned, "Ok" or the kind of the Err
    failure,        \* Option: the first error glob, File::open or read has returned
    out             \* Option: the value returned by the metric function that was called

vars == <<pc, nargs, argi, gpx, paths, app, event, indexed, result, failure, out>>

-----------------------------------------------------------------------------
(* Bounds *)

\* longest GPX element stream (trk, trkseg, trkpt elements) a document is read from
MaxTokens == 6
\* most patterns on the command line
MaxArgs == 2
\* most paths all glob iterators of a run yield together
MaxFiles == 2

-----------------------------------------------------------------------------
(* Values *)

None == <<>>
Some(v) == <<v>>
IsSome(o) == Len(o) = 1
Unwrap(o) == o[1]

Abs(x) == IF x < 0 THEN 0 - x ELSE x
Last(s) == s[Len(s)]

\* gpx::Time values: a local date-time (seconds, nanoseconds) with a UTC offset.
\* TimeA is 01:01:40 at +01:00 (the instant 100 s), TimeB is 02:00:50 at +02:00
\* (the instant 50 s): the later local time is the earlier instant.
TimeA == [local |-> 3700, nanosecond |-> 0, offset |-> 3600]
TimeB == [local |-> 7250, nanosecond |-> 500, offset |-> 7200]

\* gpx::Waypoint values, on one meridian.
PointA == [lat |-> 0, lon |-> 0, elevation |-> Some(100000), time |-> Some(TimeA)]
PointB == [lat |-> 1, lon |-> 0, elevation |-> None, time |-> None]
PointC == [lat |-> 2, lon |-> 0, elevation |-> Some(130000), time |-> Some(TimeB)]
PointValues == {PointA, PointB, PointC}

TrackNames == {None, Some("Morning Ride")}

\* The elements of a GPX file the metrics read.
Trk(name) == <<"trk", name>>
TrkSeg == <<"trkseg", None>>
TrkPt(p) == <<"trkpt", p>>
Tokens == {Trk(n) : n \in TrackNames} \cup {TrkSeg} \cup {TrkPt(p) : p \in PointValues}

\* A trkseg lies in a trk and a trkpt in a trkseg.
RECURSIVE WellFormedFrom(_, _, _)
WellFormedFrom(s, i, depth) ==
    IF i > Len(s) THEN TRUE
    ELSE CASE s[i][1] = "trk" -> WellFormedFrom(s, i + 1, 1)
           [] s[i][1] = "trkseg" -> depth >= 1 /\ WellFormedFrom(s, i + 1, 2)
           [] OTHER -> depth = 2 /\ WellFormedFrom(s, i + 1, 2)
WellFormed(s) == WellFormedFrom(s, 1, 0)

\* gpx::read on a well-formed stream: the Gpx value, tracks of segments of points.
RECURSIVE ReadFrom(_, _, _)
ReadFrom(s, i, tracks) ==
    IF i > Len(s) THEN tracks
    ELSE LET nt == Len(tracks)
             ns == IF nt = 0 THEN 0 ELSE Len(tracks[nt].segments)
         IN CASE s[i][1] = "trk" ->
                   ReadFrom(s, i + 1,
                            Append(tracks, [name |-> s[i][2], segments |-> <<>>]))
              [] s[i][1] = "trkseg" ->
                   ReadFrom(s, i + 1,
                            [tracks EXCEPT ![nt].segments = Append(@, [points |-> <<>>])])
              [] OTHER ->
                   ReadFrom(s, i + 1,
                            [tracks EXCEPT ![nt].segments[ns].points = Append(@, s[i][2])])
read(s) == [tracks |-> ReadFrom(s, 1, <<>>)]

Streams == {s \in UNION {[1..n -> Tokens] : n \in 0..MaxTokens} : WellFormed(s)}
Docs == {read(s) : s \in Streams}

-----------------------------------------------------------------------------
(* src/gpx.rs *)

\* Haversine.distance of two points of one meridian: the mean-radius length of a
\* degree of latitude (111195 m) times the difference in latitude.
HaversineDistance(a, b) == 111195000 * Abs(a.lat - b.lat)

\* the loop over segment.points: state is <<total, last_point>>
RECURSIVE DistancePoints(_, _, _)
DistancePoints(points, i, st) ==
    IF i > Len(points) THEN st
    ELSE LET current == points[i]
             total == IF IsSome(st[2])
                      THEN st[1] + HaversineDistance(Unwrap(st[2]), current)
                      ELSE st[1]
         IN DistancePoints(points, i + 1, <<total, Some(current)>>)

\* all points of the segments from the j-th on, in order
RECURSIVE PointsFrom(_, _)
PointsFrom(segments, j) ==
    IF j > Len(segments) THEN <<>> ELSE segments[j].points \o PointsFrom(segments, j + 1)

\* DistanceSegments with last_point declared outside the loop over the segments
DistanceSegments_carried(segments, j, total) ==
    DistancePoints(PointsFrom(segments, j), 1, <<total, None>>)[1]

\* the loop over track.segments: last_point starts as None in every segment
RECURSIVE DistanceSegments(_, _, _)
DistanceSegments(segments, j, total) ==
    IF j > Len(segments) THEN total
    ELSE DistanceSegments(segments, j + 1,
                          DistancePoints(segments[j].points, 1, <<total, None>>)[1])

RECURSIVE DistanceTracks(_, _, _)
DistanceTracks(tracks, t, total) ==
    IF t > Len(tracks) THEN total
    ELSE DistanceTracks(tracks, t + 1, DistanceSegments(tracks[t].segments, 1, total))

gpx_total_distance(g) == DistanceTracks(g.tracks, 1, 0)

\* gpx_track_name looking for the first track that has a name
RECURSIVE FirstNamed(_, _)
FirstNamed(tracks, t) ==
    IF t > Len(tracks) THEN None
    ELSE IF IsSome(tracks[t].name) THEN tracks[t].name ELSE FirstNamed(tracks, t + 1)
gpx_track_name_first_named(g) == FirstNamed(g.tracks, 1)

gpx_track_name(g) == IF Len(g.tracks) = 0 THEN None ELSE g.tracks[1].name

\* ElevationPoints with last_elev = point.elevation: a point without elevation
\* resets the last-observed elevation
RECURSIVE ElevationPoints_reset(_, _, _)
ElevationPoints_reset(points, i, st) ==
    IF i > Len(points) THEN st
    ELSE IF IsSome(points[i].elevation)
         THEN LET elev == Unwrap(points[i].elevation)
                  gain == IF IsSome(st[2]) /\ elev - Unwrap(st[2]) > 0
                          THEN st[1] + (elev - Unwrap(st[2]))
                          ELSE st[1]
              IN ElevationPoints_reset(points, i + 1, <<gain, Some(elev)>>)
         ELSE ElevationPoints_reset(points, i + 1, <<st[1], None>>)

\* the loop over segment.points: state is <<gain, last_elev>>
RECURSIVE ElevationPoints(_, _, _)
ElevationPoints(points, i, st) ==
    IF i > Len(points) THEN st
    ELSE IF IsSome(points[i].elevation)
         THEN LET elev == Unwrap(points[i].elevation)
                  gain == IF IsSome(st[2]) /\ elev - Unwrap(st[2]) > 0
                          THEN st[1] + (elev - Unwrap(st[2]))
                          ELSE st[1]
              IN ElevationPoints(points, i + 1, <<gain, Some(elev)>>)
         ELSE ElevationPoints(points, i + 1, st)

RECURSIVE ElevationSegments(_, _, _)
ElevationSegments(segments, j, gain) ==
    IF j > Len(segments) THEN gain
    ELSE ElevationSegments(segments, j + 1,
                           ElevationPoints(segments[j].points, 1, <<gain, None>>)[1])

RECURSIVE ElevationTracks(_, _, _)
ElevationTracks(tracks, t, gain) ==
    IF t > Len(tracks) THEN gain
    ELSE ElevationTracks(tracks, t + 1, ElevationSegments(tracks[t].segments, 1, gain))

gpx_elevation_gain(g) == ElevationTracks(g.tracks, 1, 0)

\* gpx_to_chrono taking the local date-time for the UTC one
gpx_to_chrono_local(gpx_time) ==
    [secs |-> gpx_time.local,
     nsecs |-> gpx_time.nanosecond,
     offset |-> gpx_time.offset]

\* gpx_to_chrono: the UTC instant (unix_timestamp, nanosecond) and the offset
gpx_to_chrono(gpx_time) ==
    [secs |-> gpx_time.local - gpx_time.offset,
     nsecs |-> gpx_time.nanosecond,
     offset |-> gpx_time.offset]

\* Ord of DateTime<FixedOffset>: the UTC instants are compared, the offsets are not
DateTimeLess(a, b) == a.secs < b.secs \/ (a.secs = b.secs /\ a.nsecs < b.nsecs)

\* the three loops that push onto `times`
RECURSIVE TimesPoints(_, _, _)
TimesPoints(points, i, times) ==
    IF i > Len(points) THEN times
    ELSE TimesPoints(points, i + 1,
                     IF IsSome(points[i].time)
                     THEN Append(times, gpx_to_chrono(Unwrap(points[i].time)))
                     ELSE times)

RECURSIVE TimesSegments(_, _, _)
TimesSegments(segments, j, times) ==
    IF j > Len(segments) THEN times
    ELSE TimesSegments(segments, j + 1, TimesPoints(segments[j].points, 1, times))

RECURSIVE TimesTracks(_, _, _)
TimesTracks(tracks, t, times) ==
    IF t > Len(tracks) THEN times
    ELSE TimesTracks(tracks, t + 1, TimesSegments(tracks[t].segments, 1, times))

\* Iterator::min: the first of the least elements
RECURSIVE IterMin(_, _, _)
IterMin(times, i, best) ==
    IF i > Len(times) THEN best
    ELSE IterMin(times, i + 1, IF DateTimeLess(times[i], best) THEN times[i] ELSE best)

\* Iterator::max: the last of the greatest elements
RECURSIVE IterMax(_, _, _)
IterMax(times, i, best) ==
    IF i > Len(times) THEN best
    ELSE IterMax(times, i + 1, IF DateTimeLess(times[i], best) THEN best ELSE times[i])

gpx_start_end_date(g) ==
    LET times == TimesTracks(g.tracks, 1, <<>>)
    IN IF Len(times) = 0 THEN None
       ELSE Some(<<IterMin(times, 2, times[1]), IterMax(times, 2, times[1])>>)

-----------------------------------------------------------------------------
(* src/runner.rs: the App *)

\* usize::MAX (the width the model checker's integers have)
UsizeMax == 2147483647
saturating_add(i, n) == IF i > UsizeMax - n THEN UsizeMax ELSE i + n
saturating_sub(i, n) == IF i < n THEN 0 ELSE i - n

\* f64 / 1_000.0
DivThousand(x) == x \div 1000
\* f64::round, then format!("{}"): the nearest integer, halves away from zero
RoundDisplay(x) == IF x >= 0 THEN (x + 500) \div 1000 ELSE 0 - ((500 - x) \div 1000)

\* ListState::default
ListStateDefault == [offset |-> 0, selected |-> None]

\* App::default
AppDefault ==
    [files |-> <<>>,
     file_list |-> [files |-> <<>>, state |-> ListStateDefault],
     grand_total_km |-> 0,
     exit |-> FALSE]

\* FileItem::new, with the arguments in the order of the call
FileItemNew(file_name, distance, date, elevation, name) ==
    [file_name |-> file_name, distance |-> distance, date |-> date,
     elevation |-> elevation, name |-> name]

\* Option::unwrap_or
unwrap_or(o, default) == IF IsSome(o) THEN Unwrap(o) ELSE default

\* Aggregate with `=` for `+=` on the grand total
Aggregate_overwrite(self, file_path, g) ==
    LET distance_km == DivThousand(gpx_total_distance(g))
        item == FileItemNew(file_path, distance_km, "",
                            RoundDisplay(gpx_elevation_gain(g)),
                            unwrap_or(gpx_track_name(g), "Activity"))
    IN [self EXCEPT !.file_list.files = Append(@, item),
                    !.grand_total_km = distance_km]

\* The body of the inner loop of App::run once `gpx` is bound: the record of the
\* file is pushed and its distance is added to the grand total.
Aggregate(self, file_path, g) ==
    LET distance_m == gpx_total_distance(g)
        distance_km == DivThousand(distance_m)
        name == unwrap_or(gpx_track_name(g), "Activity")
        elevation == gpx_elevation_gain(g)
        item == FileItemNew(file_path, distance_km, "", RoundDisplay(elevation), name)
    IN [self EXCEPT !.file_list.files = Append(@, item),
                    !.grand_total_km = @ + distance_km]

\* ListState::select
select(state, index) ==
    [selected |-> index, offset |-> IF index = None THEN 0 ELSE state.offset]

\* ListState::select_next, ListState::select_previous
select_next(state) ==
    select(state, Some(IF IsSome(state.selected)
                       THEN saturating_add(Unwrap(state.selected), 1) ELSE 0))
select_previous(state) ==
    select(state, Some(IF IsSome(state.selected)
                       THEN saturating_sub(Unwrap(state.selected), 1) ELSE UsizeMax))

\* App::handle_key_event
handle_key_event(self, code) ==
    CASE code = "q" -> [self EXCEPT !.exit = TRUE]
      [] code \in {"j", "Down"} -> [self EXCEPT !.file_list.state = select_next(@)]
      [] code \in {"k", "Up"} -> [self EXCEPT !.file_list.state = select_previous(@)]
      [] OTHER -> self

\* handle_events without the check of the kind of the key event
handle_events_any_kind(self, ev) ==
    IF ev.type = "Key" THEN handle_key_event(self, ev.code) ELSE self

\* App::handle_events on the event read
handle_events(self, ev) ==
    IF ev.type = "Key" /\ ev.kind = "Press" THEN handle_key_event(self, ev.code) ELSE self

KeyCodes == {"q", "j", "k", "Down", "Up", "x"}
Events ==
    [type : {"Key"}, kind : {"Press"}, code : KeyCodes]
    \cup [type : {"Key"}, kind : {"Release"}, code : {"q", "j"}]
    \cup [type : {"Resize"}, kind : {"None"}, code : {"None"}]

\* The sizes of the terminal: frame.area()
TerminalSizes ==
    {[width |-> 80, height |-> 24], [width |-> 80, height |-> 2], [width |-> 80, height |-> 1]}

\* Rect::is_empty
is_empty(area) == area.width = 0 \/ area.height = 0

\* The list area of Widget::render: the main area is what the one-line footer
\* leaves, and the list takes its left half.
ListArea(area) ==
    [width |-> area.width \div 2, height |-> saturating_sub(area.height, 1)]

\* Block::inner of the block of render_list: a right border and a title line
BlockInner(area) ==
    [width |-> saturating_sub(area.width, 1), height |-> saturating_sub(area.height, 1)]

\* App::render_list: List's StatefulWidget::render on file_list.state. Nothing is
\* drawn into an empty area; an empty list deselects; a selection past the end
\* becomes the last item.
render_list(self, area) ==
    LET n == Len(self.file_list.files)
        state == self.file_list.state
    IN IF is_empty(BlockInner(area)) THEN self
       ELSE IF n = 0 THEN [self EXCEPT !.file_list.state = select(state, None)]
       ELSE IF IsSome(state.selected) /\ Unwrap(state.selected) >= n
            THEN [self EXCEPT !.file_list.state = select(state, Some(n - 1))]
            ELSE self

\* App::render_detail: the index it uses on file_list.files, if it uses one
DetailIndex(self) == self.file_list.state.selected

-----------------------------------------------------------------------------
(* App::run and run_cyclemetrics *)

Init ==
    /\ pc = "args"
    /\ nargs \in 1..MaxArgs
    /\ argi = 1
    /\ gpx = None
    /\ paths = <<>>
    /\ app = AppDefault
    /\ event = None
    /\ indexed = None
    /\ result = None
    /\ failure = None
    /\ out = None

\* The error is dropped and the loop goes on
Propagate_swallow(kind) ==
    /\ pc' = pc
    /\ result' = result

\* The `?` operator: run returns the error, and run_cyclemetrics returns it.
Propagate(kind) ==
    /\ pc' = "failed"
    /\ result' = Some(kind)

\* The documents the files of a run hold.
RunStreams ==
    { <<>>,
      <<Trk(None), Trk(Some("Morning Ride"))>>,
      <<Trk(Some("Morning Ride")), TrkSeg, TrkPt(PointA), TrkPt(PointC)>>,
      <<Trk(None), TrkSeg, TrkPt(PointA), TrkPt(PointB)>>,
      <<Trk(None), TrkSeg, TrkPt(PointB), TrkSeg, TrkPt(PointB)>> }

\* glob::glob(gpx_path.to_str().unwrap())?
Glob ==
    /\ pc = "args"
    /\ argi <= nargs
    /\ \E outcome \in {"ok", "PatternError", "NotUtf8"} :
         CASE outcome = "ok" ->
                /\ pc' = "glob"
                /\ UNCHANGED <<result, failure>>
           [] outcome = "PatternError" ->
                /\ Propagate("PatternError")
                /\ failure' = Some("PatternError")
           [] OTHER ->
                /\ pc' = "panicked"
                /\ UNCHANGED <<result, failure>>
    /\ UNCHANGED <<nargs, argi, gpx, paths, app, event, indexed, out>>

\* One turn of `for file_res in files`: file_res?, File::open(..)?, read(..)?,
\* then the metrics and the push.
ProcessFile ==
    /\ pc = "glob"
    /\ Len(paths) < MaxFiles
    /\ \E outcome \in {"ok", "GlobError", "IoError", "ParseError"} :
         LET file_path == <<argi, Cardinality({k \in 1..Len(paths) : paths[k][1] = argi}) + 1>>
         IN CASE outcome = "GlobError" ->
                   /\ Propagate("GlobError")
                   /\ failure' = Some("GlobError")
                   /\ UNCHANGED <<gpx, paths, app>>
              [] outcome = "IoError" ->
                   /\ Propagate("IoError")
                   /\ failure' = Some("IoError")
                   /\ paths' = Append(paths, file_path)
                   /\ UNCHANGED <<gpx, app>>
              [] outcome = "ParseError" ->
                   /\ Propagate("ParseError")
                   /\ failure' = Some("ParseError")
                   /\ paths' = Append(paths, file_path)
                   /\ UNCHANGED <<gpx, app>>
              [] OTHER ->
                   \E s \in RunStreams :
                       /\ gpx' = Some(read(s))
                       /\ paths' = Append(paths, file_path)
                       /\ app' = Aggregate(app, file_path, read(s))
                       /\ UNCHANGED <<pc, result, failure>>
    /\ UNCHANGED <<nargs, argi, event, indexed, out>>

\* NextPattern returning an error for a pattern that has yielded no path
NextPattern_nomatch ==
    /\ pc = "glob"
    /\ IF \E k \in 1..Len(paths) : paths[k][1] = argi
       THEN pc' = "args" /\ argi' = argi + 1 /\ result' = result
       ELSE pc' = "failed" /\ argi' = argi /\ result' = Some("NoMatch")
    /\ UNCHANGED <<nargs, gpx, paths, app, event, indexed, failure, out>>

\* The glob iterator is exhausted: the outer loop goes to the next pattern.
NextPattern ==
    /\ pc = "glob"
    /\ pc' = "args"
    /\ argi' = argi + 1
    /\ UNCHANGED <<nargs, gpx, paths, app, event, indexed, result, failure, out>>

\* The outer loop is over: println!, then the display loop.
EnterDisplay ==
    /\ pc = "args"
    /\ argi > nargs
    /\ pc' = "draw"
    /\ UNCHANGED <<nargs, argi, gpx, paths, app, event, indexed, result, failure, out>>

\* terminal.draw(..)?: Widget::render, that is render_list, render_detail and
\* render_footer. render_detail panics on an index past the end of the records.
Draw ==
    /\ pc = "draw"
    /\ ~app.exit
    /\ \/ \E area \in TerminalSizes :
            LET rendered == render_list(app, ListArea(area))
                i == DetailIndex(rendered)
            IN /\ app' = rendered
               /\ indexed' = i
               /\ pc' = IF IsSome(i) /\ Unwrap(i) >= Len(rendered.file_list.files)
                        THEN "panicked" ELSE "events"
               /\ UNCHANGED result
       \/ /\ Propagate("IoError")
          /\ UNCHANGED <<app, indexed>>
    /\ UNCHANGED <<nargs, argi, gpx, paths, event, failure, out>>

\* self.handle_events()?
HandleEvents ==
    /\ pc = "events"
    /\ \/ \E ev \in Events :
            /\ event' = Some(ev)
            /\ app' = handle_events(app, ev)
            /\ pc' = "draw"
            /\ UNCHANGED result
       \/ /\ Propagate("IoError")
          /\ UNCHANGED <<app, event>>
    /\ UNCHANGED <<nargs, argi, gpx, paths, indexed, failure, out>>

\* `while !self.exit` ends: run returns Ok(()).
Finish ==
    /\ pc = "draw"
    /\ app.exit
    /\ pc' = "done"
    /\ result' = Some("Ok")
    /\ UNCHANGED <<nargs, argi, gpx, paths, app, event, indexed, failure, out>>

Next ==
    \/ Glob
    \/ ProcessFile
    \/ NextPattern
    \/ EnterDisplay
    \/ Draw
    \/ HandleEvents
    \/ Finish

Spec == Init /\ [][Next]_vars

-----------------------------------------------------------------------------
(* The metric functions of src/gpx.rs, each called on every document *)

InitGpx ==
    /\ pc = "call"
    /\ gpx \in {Some(d) : d \in Docs}
    /\ nargs = 1
    /\ argi = 1
    /\ paths = <<>>
    /\ app = AppDefault
    /\ event = None
    /\ indexed = None
    /\ result = None
    /\ failure = None
    /\ out = None

Return(fn, value) ==
    /\ pc = "call"
    /\ pc' = "returned"
    /\ out' = Some([fn |-> fn, value |-> value])
    /\ UNCHANGED <<nargs, argi, gpx, paths, app, event, indexed, result, failure>>

CallTotalDistance == Return("gpx_total_distance", gpx_total_distance(Unwrap(gpx)))
CallTrackName == Return("gpx_track_name", gpx_track_name(Unwrap(gpx)))
CallElevationGain == Return("gpx_elevation_gain", gpx_elevation_gain(Unwrap(gpx)))
CallStartEndDate == Return("gpx_start_end_date", gpx_start_end_date(Unwrap(gpx)))

NextGpx ==
    \/ CallTotalDistance
    \/ CallTrackName
    \/ CallElevationGain
    \/ CallStartEndDate

SpecGpx == InitGpx /\ [][NextGpx]_vars

-----------------------------------------------------------------------------
(* Properties *)

RECURSIVE SumSeq(_)
SumSeq(s) == IF Len(s) = 0 THEN 0 ELSE s[1] + SumSeq(Tail(s))

RECURSIVE Flatten(_)
Flatten(ss) == IF Len(ss) = 0 THEN <<>> ELSE ss[1] \o Flatten(Tail(ss))

\* every segment of the document, whatever its track
AllSegments(g) == Flatten([t \in 1..Len(g.tracks) |-> g.tracks[t].segments])
\* every point of the document
AllPoints(g) == Flatten([j \in 1..Len(AllSegments(g)) |-> AllSegments(g)[j].points])

Returned(fn) == IsSome(out) /\ Unwrap(out).fn = fn
Value == Unwrap(out).value
Doc == Unwrap(gpx)
Records == app.file_list.files

\* the elevations of the elevation-bearing points of a segment, in order
HasElevation(p) == IsSome(p.elevation)
Elevations(points) ==
    LET bearing == SelectSeq(points, HasElevation)
    IN [k \in 1..Len(bearing) |-> Unwrap(bearing[k].elevation)]
\* the positive differences between each elevation and the one before it
Ascent(e) ==
    SumSeq([k \in 1..(Len(e) - 1) |-> IF e[k + 1] > e[k] THEN e[k + 1] - e[k] ELSE 0])

\* C1: gpx_elevation_gain is the sum, over the segments, of the positive
\* differences between each elevation-bearing point and the elevation-bearing
\* point before it in the same segment: a point without elevation is skipped and
\* does not reset the last-observed elevation ([100, none, 130] yields 30), a
\* descent adds nothing, and nothing carries over between segments or tracks.
C1_ElevationGain ==
    Returned("gpx_elevation_gain") =>
        /\ Value = SumSeq([j \in 1..Len(AllSegments(Doc)) |->
                              Ascent(Elevations(AllSegments(Doc)[j].points))])
        /\ Value >= 0
        /\ (Doc.tracks = <<[name |-> None,
                            segments |-> <<[points |-> <<PointA, PointB, PointC>>]>>]>>
              => Value = 30000)
        /\ (Doc.tracks = <<[name |-> None,
                            segments |-> <<[points |-> <<PointA, PointC, PointA, PointC>>]>>]>>
              => Value = 60000)

\* C1 witness: the gain of [100, none, 130] in one segment has been returned, and
\* so has the gain of a document whose elevations rise across a segment boundary.
C1_Witness ==
    /\ Returned("gpx_elevation_gain")
    /\ Doc.tracks = <<[name |-> None,
                       segments |-> <<[points |-> <<PointA, PointB, PointC>>]>>]>>
    /\ Value = 30000

\* C2: gpx_total_distance is the sum of the distances of the pairs of consecutive
\* points inside one segment: no pair spans two segments or two tracks, and a
\* document whose segments all have fewer than 2 points has distance 0.
C2_TotalDistance ==
    Returned("gpx_total_distance") =>
        /\ Value = SumSeq([j \in 1..Len(AllSegments(Doc)) |->
                              LET pts == AllSegments(Doc)[j].points
                              IN SumSeq([k \in 1..(Len(pts) - 1) |->
                                            HaversineDistance(pts[k], pts[k + 1])])])
        /\ ((\A j \in 1..Len(AllSegments(Doc)) : Len(AllSegments(Doc)[j].points) < 2)
              => Value = 0)

\* C2 witness: the distance of a document has been returned in which a segment
\* ends at one latitude and the next segment starts at another.
C2_Witness ==
    /\ Returned("gpx_total_distance")
    /\ \E j \in 1..(Len(AllSegments(Doc)) - 1) :
         LET a == AllSegments(Doc)[j].points
             b == AllSegments(Doc)[j + 1].points
         IN Len(a) >= 2 /\ Len(b) >= 1 /\ Last(a).lat # b[1].lat
    /\ Value > 0

\* the files whose record has been built: every path bound to file_path, but the
\* one whose open or read failed
Processed ==
    IF failure \in {Some("IoError"), Some("ParseError")}
    THEN SubSeq(paths, 1, Len(paths) - 1) ELSE paths

\* <<pattern, rank>> pairs in the order the patterns and their matches come
PathBefore(a, b) == a[1] < b[1] \/ (a[1] = b[1] /\ a[2] < b[2])

\* C3: at every point of the aggregation loop and after it, the record list holds
\* one record per file processed so far, in the order the files were resolved, and
\* grand_total_km is the sum of the distances of those records.
C3_RecordsAndTotal ==
    /\ Len(Records) = Len(Processed)
    /\ \A k \in 1..Len(Records) : Records[k].file_name = Processed[k]
    /\ \A k \in 1..Len(Records) : \A l \in 1..Len(Records) :
         k < l => PathBefore(Records[k].file_name, Records[l].file_name)
    /\ app.grand_total_km = SumSeq([k \in 1..Len(Records) |-> Records[k].distance])

\* C3 witness: two files of different, non-zero distances have been aggregated
\* (222.390 km and 111.195 km give 333.585 km).
C3_Witness ==
    /\ pc = "draw"
    /\ Len(Records) = 2
    /\ Records[1].distance = 222390
    /\ Records[2].distance = 111195
    /\ app.grand_total_km = 333585

\* C4: the first failure of pattern resolution, file open/read or document parsing
\* aborts the aggregation: run returns that error, the failing step appends no
\* record and adds nothing to the grand total, and nothing happens after it (no
\* later file, no display loop).
C4_FirstFailureAborts ==
    /\ [](IsSome(failure) => pc = "failed" /\ result = failure)
    /\ [][IsSome(failure') /\ ~IsSome(failure) => app' = app /\ gpx' = gpx]_vars
    /\ [][pc # "failed"]_vars

\* C4 witness: the second file failed to parse after the first was aggregated.
C4_Witness ==
    /\ failure = Some("ParseError")
    /\ pc = "failed"
    /\ Len(Records) = 1
    /\ Len(paths) = 2

\* the patterns whose glob iterator ended without yielding a path
NoMatchPatterns == {i \in 1..(argi - 1) : \A k \in 1..Len(paths) : paths[k][1] # i}

\* C5 as stated: when a pattern resolves to zero files the aggregation aborts
\* with an error.
C5_NoMatchIsFatal == NoMatchPatterns # {} => pc = "failed" /\ IsSome(result)

\* C5 as amended: a malformed pattern is fatal; run returns an error only for a
\* failure of glob, File::open or read (or of the terminal in the display loop),
\* never for a pattern that matched no path.
C5_OnlyFailuresAreFatal ==
    /\ (failure = Some("PatternError") => pc = "failed" /\ result = Some("PatternError"))
    /\ (pc = "failed" =>
          IF IsSome(failure) THEN result = failure
          ELSE result = Some("IoError") /\ argi > nargs)
    /\ (NoMatchPatterns # {} /\ ~IsSome(failure) /\ argi <= nargs => pc \in {"args", "glob", "panicked"})

\* C5 witness: a pattern matched no path, a later pattern matched a file, and the
\* run completed normally.
C5_Witness ==
    /\ 1 \in NoMatchPatterns
    /\ Len(Records) = 1
    /\ pc = "done"
    /\ result = Some("Ok")

\* C6 as stated: the date of the record of a file is empty if and only if no point
\* of its document carries a timestamp.
C6_DateIffTimestamp ==
    (IsSome(gpx) /\ Len(Records) > 0) =>
        (Last(Records).date = "" <=>
            \A k \in 1..Len(AllPoints(Doc)) : ~IsSome(AllPoints(Doc)[k].time))

\* the instant of a gpx::Time, and of what gpx_start_end_date returns
Instant(t) == <<t.local - t.offset, t.nanosecond>>
InstantOf(dt) == <<dt.secs, dt.nsecs>>
InstantLeq(a, b) == a[1] < b[1] \/ (a[1] = b[1] /\ a[2] <= b[2])
Timestamps(g) ==
    {Unwrap(AllPoints(g)[k].time) : k \in {k \in 1..Len(AllPoints(g)) : IsSome(AllPoints(g)[k].time)}}

\* C7: gpx_start_end_date returns None if and only if no point of the document
\* carries a timestamp; otherwise start is the earliest and end the latest instant
\* over the points of all tracks and segments together, so start <= end.
C7_StartEndDate ==
    Returned("gpx_start_end_date") =>
        /\ (Value = None <=> Timestamps(Doc) = {})
        /\ (IsSome(Value) =>
              LET start == Unwrap(Value)[1]
                  end == Unwrap(Value)[2]
              IN /\ \E t \in Timestamps(Doc) :
                       InstantOf(start) = Instant(t) /\ start.offset = t.offset
                 /\ \E t \in Timestamps(Doc) :
                       InstantOf(end) = Instant(t) /\ end.offset = t.offset
                 /\ \A t \in Timestamps(Doc) :
                       /\ InstantLeq(InstantOf(start), Instant(t))
                       /\ InstantLeq(Instant(t), InstantOf(end))
                 /\ InstantLeq(InstantOf(start), InstantOf(end)))

\* C7 witness: the range of a document has been returned whose first track holds
\* the later instant and whose second track holds the earlier one.
C7_Witness ==
    /\ Returned("gpx_start_end_date")
    /\ Len(Doc.tracks) = 2
    /\ AllPoints([tracks |-> <<Doc.tracks[1]>>]) = <<PointA>>
    /\ AllPoints([tracks |-> <<Doc.tracks[2]>>]) = <<PointC>>
    /\ Value = Some(<<[secs |-> 50, nsecs |-> 500, offset |-> 7200],
                      [secs |-> 100, nsecs |-> 0, offset |-> 3600]>>)

\* C8: the name of the record of a file is the name of the first track of its
\* document when there is a first track and it has a name, and "Activity"
\* otherwise; later tracks never matter.
C8_RecordName ==
    (IsSome(gpx) /\ Len(Records) > 0) =>
        Last(Records).name =
            IF Len(Doc.tracks) >= 1 /\ IsSome(Doc.tracks[1].name)
            THEN Unwrap(Doc.tracks[1].name) ELSE "Activity"

\* C8 witness: a file whose first track has no name and whose second track has
\* one is shown as "Activity".
C8_Witness ==
    /\ IsSome(gpx)
    /\ Len(Doc.tracks) = 2
    /\ Doc.tracks[1].name = None
    /\ IsSome(Doc.tracks[2].name)
    /\ Len(Records) > 0
    /\ Last(Records).name = "Activity"

Displaying == pc \in {"draw", "events"}
Handled == pc = "events" /\ pc' = "draw"
Pressed(codes) ==
    Unwrap(event').type = "Key" /\ Unwrap(event').kind = "Press" /\ Unwrap(event').code \in codes

\* C9: once the aggregation loop has finished, no event and no redraw changes the
\* record list or grand_total_km: a press of 'q' only sets the exit flag, a press
\* of 'j'/Down/'k'/Up only changes the list selection, and every other key and
\* every event that is not a key press leaves the whole App unchanged.
C9_DisplayReadsOnly ==
    /\ [][Displaying => /\ app'.file_list.files = app.file_list.files
                        /\ app'.grand_total_km = app.grand_total_km
                        /\ app'.files = app.files]_vars
    /\ [][Handled /\ Pressed({"q"}) => app' = [app EXCEPT !.exit = TRUE]]_vars
    /\ [][Handled /\ Pressed({"j", "Down", "k", "Up"}) =>
            app' = [app EXCEPT !.file_list.state = app'.file_list.state]]_vars
    /\ [][Handled /\ ~Pressed({"q", "j", "Down", "k", "Up"}) => app' = app]_vars

\* C9 witness: with two records listed and one selected, the release of 'q' has
\* been handled and the App is still running.
C9_Witness ==
    /\ pc = "draw"
    /\ Len(Records) = 2
    /\ app.file_list.state.selected = Some(1)
    /\ event = Some([type |-> "Key", kind |-> "Release", code |-> "q"])
    /\ ~app.exit

\* C10 as stated: whenever render_detail indexes file_list.files with the selected
\* index i, i is less than the number of records.
C10_IndexInRange ==
    IsSome(indexed) => Unwrap(indexed) < Len(Records)

====
